---- MODULE Spec2Model ----
(***************************************************************************)
(* A model of the lazy-sequence operators of src/src/generators.ts.        *)
(*                                                                         *)
(* Every generator object and every array iterator is a node of `heap`.    *)
(* A generator node holds the generator's position (pc) and its locals.    *)
(* One call of next() on a node is the operator IteratorNext: it runs the  *)
(* generator's body from its position to the next yield or to its return,  *)
(* calling next() on the upstream nodes as the body does.  The body        *)
(* operators thread the machine state m = [heap, pulls, calls] and answer  *)
(* with an iterator result [m, done, value].                               *)
(***************************************************************************)
EXTENDS Integers, Sequences, FiniteSets, TLC

VARIABLES
    args,     \* the arguments of the operator call under study
    heap,     \* node id -> array iterator or generator object
    pulls,    \* root generator -> every next() an array iterator answered on
              \* the root's behalf, in order: [src, done]
    calls,    \* every call of filter's condition, in order: [item, index]
    call,     \* "pending" | "returned" | "threw": the eager function calls
    ret,      \* the list groupComparedByGenerator returned
    out,      \* root generator -> the elements the consumer received
    last,     \* root generator -> "none" | "value" | "done": its last answer
    repulls   \* root generator -> next() calls made after it answered done

vars == <<args, heap, pulls, calls, call, ret, out, last, repulls>>

----------------------------------------------------------------------------
(* Bounds of the model. *)

MaxLen == 3        \* longest source of a one-source operator
MaxRepulls == 1    \* next() calls the consumer makes on a finished sequence

Elems == {0, 1, 2}

RECURSIVE SeqsUpTo(_)
SeqsUpTo(n) ==
    IF n = 0 THEN {<<>>}
    ELSE LET shorter == SeqsUpTo(n - 1)
         IN  shorter \cup {Append(s, e) : s \in {t \in shorter : Len(t) = n - 1}, e \in Elems}

Sources == SeqsUpTo(MaxLen)
ShortSources == SeqsUpTo(MaxLen - 1)
Counts == -1 .. MaxLen + 1

----------------------------------------------------------------------------
(* Iterator results and the array iterator. *)

Yield(m, v) == [m |-> m, done |-> FALSE, value |-> v]
Return(m, id) == [m |-> [m EXCEPT !.heap[id].pc = "done"], done |-> TRUE]

ArrayIterator(arr) == [kind |-> "array", arr |-> arr, idx |-> 0]

ArrayNext(m, id) ==
    LET it == m.heap[id]
    IN  IF it.idx < Len(it.arr)
        THEN [m |-> [m EXCEPT !.heap[id].idx = @ + 1,
                              !.pulls = Append(@, [src |-> id, done |-> FALSE])],
              done |-> FALSE,
              value |-> it.arr[it.idx + 1]]
        ELSE [m |-> [m EXCEPT !.pulls = Append(@, [src |-> id, done |-> TRUE])],
              done |-> TRUE]

RECURSIVE IteratorNext(_, _)

----------------------------------------------------------------------------
(* rangeGenerator *)

rangeRestarting(m, id) ==
    LET g == m.heap[id]
        i == IF g.pc = "start" THEN 0 ELSE g.i + 1
    IN  IF i < g.count
        THEN Yield([m EXCEPT !.heap[id] = [g EXCEPT !.pc = "suspended", !.i = i]],
                   g.start + i)
        ELSE [m |-> [m EXCEPT !.heap[id].pc = "start"], done |-> TRUE]

rangeGenerator(m, id) ==
    LET g == m.heap[id]
        i == IF g.pc = "start" THEN 0 ELSE g.i + 1
    IN  IF i < g.count
        THEN Yield([m EXCEPT !.heap[id] = [g EXCEPT !.pc = "suspended", !.i = i]],
                   g.start + i)
        ELSE Return(m, id)

----------------------------------------------------------------------------
(* skipGenerator and takeGenerator *)

skipContinuesOneShort(done, count) == ~done /\ count > 1

skipContinues(done, count) == ~done /\ count > 0

RECURSIVE skipAdvance(_, _, _)
skipAdvance(r, src, count) ==
    IF skipContinues(r.done, count)
    THEN skipAdvance(IteratorNext(r.m, src), src, count - 1)
    ELSE r

skipGenerator(m, id) ==
    LET g == m.heap[id]
        r == IF g.pc = "start"
             THEN skipAdvance(IteratorNext(m, g.source), g.source, g.count)
             ELSE IteratorNext(m, g.source)
    IN  IF ~r.done
        THEN Yield([r.m EXCEPT !.heap[id].pc = "suspended"], r.value)
        ELSE Return(r.m, id)

takeContinues(done, count) == ~done /\ count > 0

takeWithoutLookahead(m, id) ==
    LET g == m.heap[id]
        count == IF g.pc = "start" THEN g.count ELSE g.count - 1
        r == IteratorNext(m, g.source)
    IN  IF count <= 0 THEN Return(m, id)
        ELSE IF takeContinues(r.done, count)
        THEN Yield([r.m EXCEPT !.heap[id].pc = "suspended",
                               !.heap[id].count = count], r.value)
        ELSE Return(r.m, id)

takeGenerator(m, id) ==
    LET g == m.heap[id]
        count == IF g.pc = "start" THEN g.count ELSE g.count - 1
        r == IteratorNext(m, g.source)
    IN  IF takeContinues(r.done, count)
        THEN Yield([r.m EXCEPT !.heap[id].pc = "suspended",
                               !.heap[id].count = count], r.value)
        ELSE Return(r.m, id)

----------------------------------------------------------------------------
(* Caller-supplied callbacks, and the defaults of ./common. *)

selfSelector(x) == x
defaultComparer(a, b) == a = b

Stringifiers == {"undefined", "parity"}
Stringifier(f) == IF f = "undefined" THEN "selfSelector" ELSE f
Stringify(f, item) ==
    IF f = "selfSelector" THEN selfSelector(item)
    ELSE IF item % 2 = 0 THEN "even" ELSE "odd"

Conditions == {"isEven", "evenIndex", "always"}
Condition(c, item, index) ==
    CASE c = "isEven" -> item % 2 = 0
      [] c = "evenIndex" -> index % 2 = 0
      [] c = "always" -> TRUE

----------------------------------------------------------------------------
(* mapGenerator, filterGenerator, concatGenerator *)

mapGenerator(m, id) ==
    LET g == m.heap[id]
        i == IF g.pc = "start" THEN 0 ELSE g.i + 1
        r == IteratorNext(m, g.source)
    IN  IF r.done THEN Return(r.m, id)
        ELSE Yield([r.m EXCEPT !.heap[id].pc = "suspended", !.heap[id].i = i],
                   Stringify(g.selector, r.value))

RECURSIVE filterGenerator(_, _)
filterGenerator(m, id) ==
    LET g == m.heap[id]
        i == IF g.pc = "start" THEN 0 ELSE g.i
        r == IteratorNext(m, g.source)
    IN  IF r.done THEN Return(r.m, id)
        ELSE LET m1 == [r.m EXCEPT !.heap[id].pc = "suspended",
                                   !.heap[id].i = i,
                                   !.calls = Append(@, [item |-> r.value, index |-> i])]
             IN  IF Condition(g.condition, r.value, i)
                 THEN Yield(m1, r.value)
                 ELSE filterGenerator(m1, id)

concatGenerator(m, id) ==
    LET g == m.heap[id]
        r1 == IteratorNext(m, g.source)
        r2 == IteratorNext(IF g.pc = "other" THEN m ELSE r1.m, g.other)
    IN  IF g.pc # "other" /\ ~r1.done
        THEN Yield([r1.m EXCEPT !.heap[id].pc = "suspended"], r1.value)
        ELSE IF ~r2.done
        THEN Yield([r2.m EXCEPT !.heap[id].pc = "other"], r2.value)
        ELSE Return(r2.m, id)

----------------------------------------------------------------------------
(* reverseGenerator *)

RECURSIVE ArrayFrom(_, _, _)
ArrayFrom(m, src, buffer) ==
    LET r == IteratorNext(m, src)
    IN  IF r.done THEN [m |-> r.m, items |-> buffer]
        ELSE ArrayFrom(r.m, src, Append(buffer, r.value))

reverseIndexForward(length, i) == i + 1

reverseIndex(length, i) == (length - i - 1) + 1

reverseGenerator(m, id) ==
    LET g == m.heap[id]
        a == IF g.pc = "start" THEN ArrayFrom(m, g.source, <<>>)
             ELSE [m |-> m, items |-> g.buffer]
        i == IF g.pc = "start" THEN 0 ELSE g.i + 1
    IN  IF i < Len(a.items)
        THEN Yield([a.m EXCEPT !.heap[id].pc = "suspended",
                               !.heap[id].buffer = a.items,
                               !.heap[id].i = i],
                   a.items[reverseIndex(Len(a.items), i)])
        ELSE Return(a.m, id)

----------------------------------------------------------------------------
(* distinctGenerator, exceptGenerator, intersectGenerator, unionGenerator *)

distinctYieldsAll(set, key) == TRUE

distinctYields(set, key) == key \notin set

RECURSIVE distinctGenerator(_, _)
distinctGenerator(m, id) ==
    LET g == m.heap[id]
        r == IteratorNext(m, g.source)
    IN  IF r.done THEN Return(r.m, id)
        ELSE LET key == Stringify(g.stringifier, r.value)
                 m1 == [r.m EXCEPT !.heap[id].pc = "suspended"]
             IN  IF distinctYields(g.set, key)
                 THEN Yield([m1 EXCEPT !.heap[id].set = @ \cup {key}], r.value)
                 ELSE distinctGenerator(m1, id)

SetFromFirstOnly(m, src, set) ==
    LET r == IteratorNext(m, src)
    IN  IF r.done THEN [m |-> r.m, set |-> set]
        ELSE [m |-> r.m, set |-> set \cup {r.value}]

RECURSIVE SetFrom(_, _, _)
SetFrom(m, src, set) ==
    LET r == IteratorNext(m, src)
    IN  IF r.done THEN [m |-> r.m, set |-> set]
        ELSE SetFrom(r.m, src, set \cup {r.value})

exceptYieldsMembers(set, key) == key \in set

exceptYields(set, key) == key \notin set

intersectYields(set, key) == key \in set

RECURSIVE exceptLoop(_, _)
exceptLoop(m, id) ==
    LET g == m.heap[id]
        r == IteratorNext(m, g.first)
    IN  IF r.done THEN Return(r.m, id)
        ELSE IF exceptYields(g.set, Stringify(g.stringifier, r.value))
        THEN Yield(r.m, r.value)
        ELSE exceptLoop(r.m, id)

exceptGenerator(m, id) ==
    LET g == m.heap[id]
        s == SetFrom(m, g.mapped, {})
    IN  IF g.pc = "start"
        THEN exceptLoop([s.m EXCEPT !.heap[id].pc = "suspended",
                                    !.heap[id].set = s.set], id)
        ELSE exceptLoop(m, id)

RECURSIVE intersectLoop(_, _)
intersectLoop(m, id) ==
    LET g == m.heap[id]
        r == IteratorNext(m, g.first)
    IN  IF r.done THEN Return(r.m, id)
        ELSE IF intersectYields(g.set, Stringify(g.stringifier, r.value))
        THEN Yield(r.m, r.value)
        ELSE intersectLoop(r.m, id)

intersectGenerator(m, id) ==
    LET g == m.heap[id]
        s == SetFrom(m, g.mapped, {})
    IN  IF g.pc = "start"
        THEN intersectLoop([s.m EXCEPT !.heap[id].pc = "suspended",
                                       !.heap[id].set = s.set], id)
        ELSE intersectLoop(m, id)

NewMap(source, selector) ==
    [kind |-> "map", pc |-> "start", i |-> 0, source |-> source, selector |-> selector]

NewConcat(source, other) ==
    [kind |-> "concat", pc |-> "start", source |-> source, other |-> other]

NewDistinct(source, stringifier) ==
    [kind |-> "distinct", pc |-> "start", set |-> {}, source |-> source,
     stringifier |-> Stringifier(stringifier)]

NewExcept(kind, first, mapped, stringifier) ==
    [kind |-> kind, pc |-> "start", set |-> {}, first |-> first, mapped |-> mapped,
     stringifier |-> Stringifier(stringifier)]

unionGenerator(first, second, stringifier) ==
    [concat |-> NewConcat(first, second),
     union  |-> NewDistinct("concat", Stringifier(stringifier))]

----------------------------------------------------------------------------
(* Property keys of a record: a key is turned into a string, and the own   *)
(* keys are enumerated array indices first, ascending, then the other      *)
(* strings in the order the properties were created.                       *)

Digit == <<"0", "1", "2", "3", "4", "5", "6", "7", "8", "9">>

RECURSIVE NumberToString(_)
NumberToString(n) ==
    IF n < 0 THEN "-" \o NumberToString(-n)
    ELSE IF n < 10 THEN Digit[n + 1]
    ELSE NumberToString(n \div 10) \o Digit[(n % 10) + 1]

Num(n) == [t |-> "number", n |-> n]
Str(s) == [t |-> "string", s |-> s]

ToPropertyKey(k) == IF k.t = "number" THEN NumberToString(k.n) ELSE k.s

ArrayIndexCandidates == 0 .. 9
IsArrayIndex(p) == \E n \in ArrayIndexCandidates : NumberToString(n) = p
ToArrayIndex(p) == CHOOSE n \in ArrayIndexCandidates : NumberToString(n) = p

ObjectPrototypeKeys ==
    {"constructor", "toString", "toLocaleString", "valueOf", "hasOwnProperty",
     "isPrototypeOf", "propertyIsEnumerable", "__proto__"}

HasOwnProperty(obj, p) == \E j \in 1 .. Len(obj) : obj[j].key = p
Slot(obj, p) == CHOOSE j \in 1 .. Len(obj) : obj[j].key = p

RECURSIVE Ascending(_)
Ascending(ns) ==
    IF ns = {} THEN <<>>
    ELSE LET lo == CHOOSE x \in ns : \A y \in ns : x <= y
         IN  <<lo>> \o Ascending(ns \ {lo})

IsNotIndexEntry(e) == ~IsArrayIndex(e.key)

CreationOrderKeys(obj) == [j \in 1 .. Len(obj) |-> obj[j].key]

OwnPropertyKeys(obj) ==
    LET indices == Ascending({ToArrayIndex(obj[j].key) :
                                j \in {k \in 1 .. Len(obj) : IsArrayIndex(obj[k].key)}})
        strings == SelectSeq(obj, IsNotIndexEntry)
    IN  [j \in 1 .. Len(indices) |-> NumberToString(indices[j])]
        \o [j \in 1 .. Len(strings) |-> strings[j].key]

----------------------------------------------------------------------------
(* objectGenerator, groupByGenerator, groupComparedByGenerator *)

KeySelectors == {"self", "minusOne", "name", "mixed", "inherited"}
KeySelect(k, item) ==
    CASE k = "self" -> Num(item)
      [] k = "minusOne" -> Num(item - 1)
      [] k = "name" -> Str(<<"b", "a", "c">>[item + 1])
      [] k = "mixed" -> <<Str("x"), Num(1), Str("1")>>[item + 1]
      [] k = "inherited" -> IF item = 0 THEN Str("constructor") ELSE Str("own")

KeyComparers == {"undefined", "sameParity", "lessOrEqual", "never"}
KeyCompare(c, a, b) ==
    CASE c = "undefined" -> defaultComparer(a, b)
      [] c = "sameParity" -> a.n % 2 = b.n % 2
      [] c = "lessOrEqual" -> a.n <= b.n
      [] c = "never" -> FALSE

objectGenerator(m, id) ==
    LET g == m.heap[id]
        keys == OwnPropertyKeys(g.obj)
        i == IF g.pc = "start" THEN 1 ELSE g.i + 1
    IN  IF i <= Len(keys)
        THEN Yield([m EXCEPT !.heap[id].pc = "suspended", !.heap[id].i = i],
                   [key |-> keys[i], value |-> g.obj[Slot(g.obj, keys[i])].value])
        ELSE Return(m, id)

push(list, v) == Append(list, v)

RECURSIVE groupByLoop(_, _, _, _)
groupByLoop(m, src, keySelector, record) ==
    LET r == IteratorNext(m, src)
        key == ToPropertyKey(KeySelect(keySelector, r.value))
    IN  IF r.done THEN [m |-> r.m, threw |-> FALSE, record |-> record]
        ELSE IF HasOwnProperty(record, key)
        THEN groupByLoop(r.m, src, keySelector,
                         [record EXCEPT ![Slot(record, key)].value =
                                            push(@, selfSelector(r.value))])
        ELSE IF key \in ObjectPrototypeKeys
        THEN [m |-> r.m, threw |-> TRUE, record |-> record]
        ELSE groupByLoop(r.m, src, keySelector,
                         Append(record, [key |-> key,
                                         value |-> push(<<>>, selfSelector(r.value))]))

groupByGenerator(m, src, keySelector) == groupByLoop(m, src, keySelector, <<>>)

findLast(result, keyComparer, key) ==
    LET hits == {j \in 1 .. Len(result) : KeyCompare(keyComparer, result[j].key, key)}
    IN  IF hits = {} THEN 0 ELSE CHOOSE j \in hits : \A k \in hits : k <= j

find(result, keyComparer, key) ==
    LET hits == {j \in 1 .. Len(result) : KeyCompare(keyComparer, result[j].key, key)}
    IN  IF hits = {} THEN 0 ELSE CHOOSE j \in hits : \A k \in hits : j <= k

RECURSIVE groupComparedLoop(_, _, _, _, _)
groupComparedLoop(m, src, keySelector, keyComparer, result) ==
    LET r == IteratorNext(m, src)
        key == KeySelect(keySelector, r.value)
        pair == find(result, keyComparer, key)
    IN  IF r.done THEN [m |-> r.m, result |-> result]
        ELSE IF pair = 0
        THEN groupComparedLoop(r.m, src, keySelector, keyComparer,
                               Append(result, [key |-> key,
                                               value |-> push(<<>>, selfSelector(r.value))]))
        ELSE groupComparedLoop(r.m, src, keySelector, keyComparer,
                               [result EXCEPT ![pair].value = push(@, selfSelector(r.value))])

groupComparedByGenerator(m, src, keySelector, keyComparer) ==
    groupComparedLoop(m, src, keySelector, keyComparer, <<>>)

----------------------------------------------------------------------------

IteratorNext(m, id) ==
    LET n == m.heap[id]
    IN  IF n.kind = "array" THEN ArrayNext(m, id)
        ELSE IF n.pc = "done" THEN [m |-> m, done |-> TRUE]
        ELSE CASE n.kind = "range" -> rangeGenerator(m, id)
               [] n.kind = "map" -> mapGenerator(m, id)
               [] n.kind = "filter" -> filterGenerator(m, id)
               [] n.kind = "concat" -> concatGenerator(m, id)
               [] n.kind = "skip" -> skipGenerator(m, id)
               [] n.kind = "take" -> takeGenerator(m, id)
               [] n.kind = "reverse" -> reverseGenerator(m, id)
               [] n.kind = "distinct" -> distinctGenerator(m, id)
               [] n.kind = "except" -> exceptGenerator(m, id)
               [] n.kind = "intersect" -> intersectGenerator(m, id)
               [] n.kind = "object" -> objectGenerator(m, id)

----------------------------------------------------------------------------
(* The calls under study. *)

Roots(h) == [r \in h |-> <<>>]

InitRange ==
    \E start \in Elems, count \in Counts :
        /\ args = [op |-> "range", start |-> start, count |-> count]
        /\ heap = [range |-> [kind |-> "range", pc |-> "start", i |-> 0,
                              start |-> start, count |-> count]]
        /\ out = Roots({"range"})

InitFilter ==
    \E S \in Sources, c \in Conditions :
        /\ args = [op |-> "filter", S |-> S, condition |-> c]
        /\ heap = [src    |-> ArrayIterator(S),
                   filter |-> [kind |-> "filter", pc |-> "start", i |-> 0,
                               source |-> "src", condition |-> c]]
        /\ out = Roots({"filter"})

InitTakeSkip ==
    \E S \in Sources, n \in Counts :
        /\ args = [op |-> "takeSkip", S |-> S, n |-> n]
        /\ heap = [src   |-> ArrayIterator(S),
                   take  |-> [kind |-> "take", pc |-> "start", source |-> "src",
                              count |-> n],
                   src2  |-> ArrayIterator(S),
                   skip  |-> [kind |-> "skip", pc |-> "start", source |-> "src2",
                              count |-> n]]
        /\ out = Roots({"take", "skip"})

InitReverse ==
    \E S \in Sources :
        /\ args = [op |-> "reverse", S |-> S]
        /\ heap = [src      |-> ArrayIterator(S),
                   reverse  |-> [kind |-> "reverse", pc |-> "start", i |-> 0,
                                 buffer |-> <<>>, source |-> "src"],
                   src2     |-> ArrayIterator(S),
                   inner    |-> [kind |-> "reverse", pc |-> "start", i |-> 0,
                                 buffer |-> <<>>, source |-> "src2"],
                   reverse2 |-> [kind |-> "reverse", pc |-> "start", i |-> 0,
                                 buffer |-> <<>>, source |-> "inner"]]
        /\ out = Roots({"reverse", "reverse2"})

InitExceptIntersect ==
    \E A \in Sources, B \in ShortSources, f \in Stringifiers :
        /\ args = [op |-> "exceptIntersect", A |-> A, B |-> B, f |-> f]
        /\ heap = [first     |-> ArrayIterator(A),
                   second    |-> ArrayIterator(B),
                   mapped    |-> NewMap("second", Stringifier(f)),
                   except    |-> NewExcept("except", "first", "mapped", f),
                   first2    |-> ArrayIterator(A),
                   second2   |-> ArrayIterator(B),
                   mapped2   |-> NewMap("second2", Stringifier(f)),
                   intersect |-> NewExcept("intersect", "first2", "mapped2", f)]
        /\ out = Roots({"except", "intersect"})

InitUnion ==
    \E A \in Sources, B \in ShortSources, f \in Stringifiers :
        /\ args = [op |-> "union", A |-> A, B |-> B, f |-> f]
        /\ heap = [first    |-> ArrayIterator(A),
                   second   |-> ArrayIterator(B),
                   all      |-> ArrayIterator(A \o B),
                   distinct |-> NewDistinct("all", f)]
                  @@ unionGenerator("first", "second", f)
        /\ out = Roots({"union", "distinct"})

InitGroupBy ==
    \E S \in Sources, k \in KeySelectors :
        /\ args = [op |-> "groupBy", S |-> S, keySelector |-> k]
        /\ heap = [src |-> ArrayIterator(S)]
        /\ out = Roots({"groupBy"})

InitGroupCompared ==
    \E S \in Sources, k \in {"self", "minusOne"}, c \in KeyComparers :
        /\ args = [op |-> "groupCompared", S |-> S, keySelector |-> k,
                   keyComparer |-> c]
        /\ heap = [src |-> ArrayIterator(S)]
        /\ out = Roots({"groupCompared"})

Init ==
    /\ \/ InitRange
       \/ InitFilter
       \/ InitTakeSkip
       \/ InitReverse
       \/ InitExceptIntersect
       \/ InitUnion
       \/ InitGroupBy
       \/ InitGroupCompared
    /\ pulls = [r \in DOMAIN out |-> <<>>]
    /\ calls = <<>>
    /\ call = IF args.op \in {"groupBy", "groupCompared"} THEN "pending" ELSE "returned"
    /\ ret = <<>>
    /\ last = [r \in DOMAIN out |-> "none"]
    /\ repulls = [r \in DOMAIN out |-> 0]

Pull(r) ==
    /\ call = "returned"
    /\ last[r] = "done" => repulls[r] < MaxRepulls
    /\ LET res == IteratorNext([heap |-> heap, pulls |-> pulls[r], calls |-> calls], r)
       IN  /\ heap' = res.m.heap
           /\ pulls' = [pulls EXCEPT ![r] = res.m.pulls]
           /\ calls' = res.m.calls
           /\ out' = IF res.done THEN out ELSE [out EXCEPT ![r] = Append(@, res.value)]
           /\ last' = [last EXCEPT ![r] = IF res.done THEN "done" ELSE "value"]
    /\ repulls' = IF last[r] = "done" THEN [repulls EXCEPT ![r] = @ + 1] ELSE repulls
    /\ UNCHANGED <<args, call, ret>>

groupByCall ==
    /\ args.op = "groupBy"
    /\ call = "pending"
    /\ LET g == groupByGenerator([heap |-> heap, pulls |-> pulls["groupBy"],
                                  calls |-> calls], "src", args.keySelector)
       IN  /\ call' = IF g.threw THEN "threw" ELSE "returned"
           /\ heap' = IF g.threw THEN g.m.heap
                      ELSE g.m.heap @@ [groupBy |-> [kind |-> "object", pc |-> "start",
                                                     i |-> 0, obj |-> g.record]]
           /\ pulls' = [pulls EXCEPT !["groupBy"] = g.m.pulls]
    /\ UNCHANGED <<args, calls, ret, out, last, repulls>>

groupComparedCall ==
    /\ args.op = "groupCompared"
    /\ call = "pending"
    /\ LET g == groupComparedByGenerator([heap |-> heap, pulls |-> pulls["groupCompared"],
                                          calls |-> calls],
                                         "src", args.keySelector, args.keyComparer)
       IN  /\ ret' = g.result
           /\ heap' = g.m.heap
           /\ pulls' = [pulls EXCEPT !["groupCompared"] = g.m.pulls]
    /\ call' = "returned"
    /\ UNCHANGED <<args, calls, out, last, repulls>>

objectNext == \E r \in {"groupBy"} \cap DOMAIN out : Pull(r)
rangeNext == \E r \in {"range"} \cap DOMAIN out : Pull(r)
filterNext == \E r \in {"filter"} \cap DOMAIN out : Pull(r)
skipNext == \E r \in {"skip"} \cap DOMAIN out : Pull(r)
takeNext == \E r \in {"take"} \cap DOMAIN out : Pull(r)
reverseNext == \E r \in {"reverse", "reverse2"} \cap DOMAIN out : Pull(r)
distinctNext == \E r \in {"distinct"} \cap DOMAIN out : Pull(r)
exceptNext == \E r \in {"except"} \cap DOMAIN out : Pull(r)
intersectNext == \E r \in {"intersect"} \cap DOMAIN out : Pull(r)
unionNext == \E r \in {"union"} \cap DOMAIN out : Pull(r)

Next ==
    \/ groupByCall
    \/ groupComparedCall
    \/ objectNext
    \/ rangeNext
    \/ filterNext
    \/ skipNext
    \/ takeNext
    \/ reverseNext
    \/ distinctNext
    \/ exceptNext
    \/ intersectNext
    \/ unionNext

Spec == Init /\ [][Next]_vars

----------------------------------------------------------------------------
(* Vocabulary of the properties. *)

Done(r) == r \in DOMAIN last /\ last[r] = "done"

Min(a, b) == IF a < b THEN a ELSE b
Max(a, b) == IF a < b THEN b ELSE a

\* The elements of A at the positions P, in A's order.
Pick(A, P) ==
    LET F[j \in 0 .. Len(A)] ==
            IF j = 0 THEN <<>>
            ELSE IF j \in P THEN Append(F[j - 1], A[j]) ELSE F[j - 1]
    IN  F[Len(A)]

IsPrefix(s, t) == Len(s) <= Len(t) /\ \A j \in 1 .. Len(s) : s[j] = t[j]

Least(P) == CHOOSE j \in P : \A k \in P : j <= k

\* The elements a root's array iterator `src` has handed out so far.
Pulled(r, src) ==
    Cardinality({k \in 1 .. Len(pulls[r]) : pulls[r][k].src = src /\ ~pulls[r][k].done})

Exhausted(r, src) ==
    \E k \in 1 .. Len(pulls[r]) : pulls[r][k].src = src /\ pulls[r][k].done

----------------------------------------------------------------------------
\* C1: filter calls its predicate on the k-th element pulled from the source
\* (k = 0, 1, 2, ...) with index k, whether or not the element is kept.
C1_FilterIndexIsPullCount ==
    args.op = "filter" =>
        \A k \in 1 .. Len(calls) : calls[k] = [item |-> args.S[k], index |-> k - 1]

----------------------------------------------------------------------------
\* C2: except(A, B, f) and intersect(A, B, f) partition A: the positions of A
\* split into two sets, except yields the elements at the one and intersect
\* those at the other, each in A's order; no element of except has the f-key
\* of an element of B, every element of intersect has.
C2_ExceptIntersectPartition ==
    (args.op = "exceptIntersect" /\ Done("except") /\ Done("intersect")) =>
        LET A == args.A
            f == Stringifier(args.f)
            keysB == {Stringify(f, args.B[j]) : j \in 1 .. Len(args.B)}
        IN  /\ \E P \in SUBSET (1 .. Len(A)) :
                   /\ out["except"] = Pick(A, P)
                   /\ out["intersect"] = Pick(A, (1 .. Len(A)) \ P)
            /\ \A j \in 1 .. Len(out["except"]) :
                   Stringify(f, out["except"][j]) \notin keysB
            /\ \A j \in 1 .. Len(out["intersect"]) :
                   Stringify(f, out["intersect"][j]) \in keysB

C2_Witness ==
    /\ args.op = "exceptIntersect" /\ Done("except") /\ Done("intersect")
    /\ args.f = "parity"
    /\ Len(out["except"]) >= 1 /\ Len(out["intersect"]) >= 1
    /\ \E j \in 1 .. Len(args.B) : args.B[j] \notin {args.A[k] : k \in 1 .. Len(args.A)}

----------------------------------------------------------------------------
\* C3: distinct(S, f) yields an element exactly when it is the first of S
\* with its f-key, so its output has no two elements of equal f-key and is no
\* longer than S; union(A, B, f) yields the same sequence as distinct applied
\* to A followed by B.
C3_DistinctFirstOccurrences ==
    args.op = "union" =>
        LET S == args.A \o args.B
            f == Stringifier(args.f)
            firsts == {j \in 1 .. Len(S) :
                         \A k \in 1 .. j - 1 : Stringify(f, S[k]) # Stringify(f, S[j])}
            D == out["distinct"]
            U == out["union"]
        IN  /\ IsPrefix(D, Pick(S, firsts))
            /\ Done("distinct") => D = Pick(S, firsts)
            /\ \A j, k \in 1 .. Len(D) : j # k => Stringify(f, D[j]) # Stringify(f, D[k])
            /\ Len(D) <= Len(S)
            /\ IsPrefix(U, D) \/ IsPrefix(D, U)
            /\ (Done("distinct") /\ Done("union")) => U = D

C3_Witness ==
    /\ args.op = "union" /\ Done("distinct") /\ Done("union")
    /\ args.f = "parity"
    /\ Len(out["union"]) = 2
    /\ Len(args.A) >= 1 /\ Len(args.B) >= 2

----------------------------------------------------------------------------
\* C4: the groups of groupBy partition the source by property key, and the
\* values of a group are in source order (both forms of the claim).
GroupByKey(j) == ToPropertyKey(KeySelect(args.keySelector, args.S[j]))
GroupByFirstAt(p) == Least({j \in 1 .. Len(args.S) : GroupByKey(j) = p})

GroupByPartitions ==
    LET O == out["groupBy"]
    IN  /\ \A g, h \in 1 .. Len(O) : g # h => O[g].key # O[h].key
        /\ {O[g].key : g \in 1 .. Len(O)} = {GroupByKey(j) : j \in 1 .. Len(args.S)}
        /\ \A g \in 1 .. Len(O) :
               O[g].value = Pick(args.S, {j \in 1 .. Len(args.S) : GroupByKey(j) = O[g].key})

----------------------------------------------------------------------------
\* C5: groupCompared returns the groups in first-key-encountered order; each
\* source element contributes one value, to the first existing group whose
\* key the comparer matches against the element's key, and opens a new group
\* only when none matches; the values of a group are in source order.
C5_GroupComparedFirstMatch ==
    (args.op = "groupCompared" /\ call = "returned") =>
        LET S == args.S
            G == Len(ret)
            key(j) == KeySelect(args.keySelector, S[j])
        IN  \E a \in [1 .. Len(S) -> 1 .. G] :
                LET members(g) == {j \in 1 .. Len(S) : a[j] = g}
                    first(g) == Least(members(g))
                IN  /\ \A g \in 1 .. G :
                           /\ members(g) # {}
                           /\ ret[g].key = key(first(g))
                           /\ ret[g].value = Pick(S, members(g))
                    /\ \A g, h \in 1 .. G : g < h => first(g) < first(h)
                    /\ \A j \in 1 .. Len(S) :
                           LET matching == {g \in 1 .. G :
                                              /\ first(g) < j
                                              /\ KeyCompare(args.keyComparer, ret[g].key, key(j))}
                           IN  IF matching = {} THEN first(a[j]) = j
                               ELSE a[j] = Least(matching)

C5_Witness ==
    /\ args.op = "groupCompared" /\ call = "returned"
    /\ args.keyComparer = "lessOrEqual"
    /\ Len(ret) = 2
    /\ Len(ret[1].value) = 2 /\ Len(ret[2].value) = 1
    /\ KeyCompare(args.keyComparer, ret[2].key,
                  KeySelect(args.keySelector, args.S[Len(args.S)]))

----------------------------------------------------------------------------
\* C6: for every integer n, take(S, n) yields the first min(max(n, 0), |S|)
\* elements of S and skip(S', n), over an independent copy S' of S, yields
\* the rest, so the one output followed by the other is S.
C6_TakeThenSkipIsSource ==
    (args.op = "takeSkip" /\ Done("take") /\ Done("skip")) =>
        LET S == args.S
            k == Min(Max(args.n, 0), Len(S))
        IN  /\ out["take"] = SubSeq(S, 1, k)
            /\ out["skip"] = SubSeq(S, k + 1, Len(S))
            /\ out["take"] \o out["skip"] = S

C6_Witness ==
    /\ args.op = "takeSkip" /\ Done("take") /\ Done("skip")
    /\ args.n >= 1 /\ args.n < Len(args.S)
    /\ out["take"] # <<>> /\ out["skip"] # <<>>

----------------------------------------------------------------------------
\* C7: except and intersect pull nothing from first until second has been
\* pulled to exhaustion, and then pull first only as far as the element last
\* handed to the consumer (nothing before the first request, no read-ahead).
SecondThenFirst(r, first, second) ==
    LET log == pulls[r]
    IN  /\ last[r] = "none" => log = <<>>
        /\ \A j \in 1 .. Len(log) :
               log[j].src = first =>
                   \E k \in 1 .. j - 1 : log[k].src = second /\ log[k].done
        /\ last[r] # "none" => Pulled(r, second) = Len(args.B) /\ Exhausted(r, second)
        /\ last[r] = "value" =>
               /\ ~Exhausted(r, first)
               /\ out[r][Len(out[r])] = args.A[Pulled(r, first)]

C7_SecondExhaustedBeforeFirst ==
    args.op = "exceptIntersect" =>
        /\ SecondThenFirst("except", "first", "second")
        /\ SecondThenFirst("intersect", "first2", "second2")

C7_Witness ==
    /\ args.op = "exceptIntersect"
    /\ Len(args.B) >= 1
    /\ last["except"] = "value" /\ Pulled("except", "first") < Len(args.A)
    /\ last["intersect"] = "value" /\ Pulled("intersect", "first2") < Len(args.A)

----------------------------------------------------------------------------
\* C8: once a pull on a sequence has reported done, every later pull on it
\* reports done and hands over no element.
C8_ExhaustedIsTerminal ==
    [][\A r \in DOMAIN last :
           last[r] = "done" => (last'[r] = "done" /\ out'[r] = out[r])]_vars

C8_Witness ==
    /\ args.op = "takeSkip"
    /\ args.n >= 1 /\ args.n < Len(args.S)
    /\ Done("take") /\ repulls["take"] >= 1
    /\ Done("skip") /\ repulls["skip"] >= 1

----------------------------------------------------------------------------
\* C9: reverse(S) yields the elements of S from last to first, and
\* reverse(reverse(S)) yields S.
C9_ReverseTwiceIsIdentity ==
    args.op = "reverse" =>
        LET S == args.S
        IN  /\ Done("reverse") =>
                   out["reverse"] = [j \in 1 .. Len(S) |-> S[Len(S) - j + 1]]
            /\ Done("reverse2") => out["reverse2"] = S

C9_Witness ==
    /\ args.op = "reverse" /\ Done("reverse") /\ Done("reverse2")
    /\ Len(args.S) >= 2
    /\ out["reverse"] # args.S

----------------------------------------------------------------------------
\* C10: a take(source, count) pulled until done over a source of more than
\* max(count, 0) elements has pulled max(count, 0) + 1 elements from it and
\* yielded max(count, 0); a consumer that stops on receiving the count-th
\* element has made it pull only count elements.
C10_TakePullsOneBeyond ==
    args.op = "takeSkip" =>
        LET k == Max(args.n, 0)
        IN  /\ (Done("take") /\ Len(args.S) > k) =>
                   /\ Pulled("take", "src") = k + 1
                   /\ Len(out["take"]) = k
            /\ (last["take"] = "value" /\ Len(out["take"]) = args.n) =>
                   Pulled("take", "src") = args.n

C10_Witness ==
    /\ args.op = "takeSkip" /\ Done("take")
    /\ args.n >= 1 /\ Len(args.S) > args.n
    /\ Pulled("take", "src") = args.n + 1

====
